---- MODULE Spec2Model ----
(***************************************************************************)
(* Uptime monitor: the monitor store, the scheduler's job map, the web     *)
(* requests that create / update / toggle / delete monitors and the        *)
(* periodic check run_monitor_check.                                       *)
(*                                                                         *)
(* Python Optional values are sequences of length <= 1: <<>> is None and   *)
(* <<v>> is the value v.  Tables of the store are sets of rows (monitors)  *)
(* and a sequence of rows in insertion order (monitor_checks).             *)
(*                                                                         *)
(* Each web request and each check execution advances one statement group  *)
(* at a time; the groups are cut at the points where the code touches the  *)
(* store (a query, a commit, the reload of an object expired by a commit)  *)
(* or the scheduler (remove_job, add_job), so that requests served by      *)
(* different threads and checks run by the scheduler's pool interleave.    *)
(***************************************************************************)
EXTENDS Integers, Sequences, FiniteSets, Bags, TLC

VARIABLES
    monitors,   \* table monitors: set of rows
    checks,     \* table monitor_checks: sequence of rows, oldest first
    jobs,       \* the scheduler's job store: set of jobs
    instances,  \* the executor's running-instance count per job id
    execs,      \* bag of run_monitor_check executions submitted to the pool
    reqs,       \* bag of web requests in flight
    load        \* what a run may hold: monitor ids and threads active at once

vars == <<monitors, checks, jobs, instances, execs, reqs, load>>

----------------------------------------------------------------------------
(* Bounds of the model *)

MaxLoad == 3
MaxChecks == 3

(* Program constants *)

MinInterval == 30
DefaultInterval == 60
MaxInstances == 1

(* A run is explored with m monitor ids and t threads (requests being     *)
(* served plus checks handed to the pool) active at once, m + t = MaxLoad. *)
MonIds == 1..(MaxLoad - 1)

Loads == {[monitors |-> m, threads |-> MaxLoad - m] : m \in MonIds}

(* Interval values a client may send; <<>> is "field absent" *)
ReqIntervals == {<<>>, <<0>>, <<10>>, <<60>>}
ReqPaused == {<<>>, <<TRUE>>, <<FALSE>>}

None == <<>>
Some(v) == <<v>>

Max(a, b) == IF a >= b THEN a ELSE b

----------------------------------------------------------------------------
(* The store *)

Exists(m) == \E r \in monitors : r.id = m

Row(m) == CHOOSE r \in monitors : r.id = m

(* Integer primary key on the default SQLite store: the row id of a new   *)
(* row is one more than the largest id in the table, so the id of a       *)
(* deleted last row is given out again.                                   *)
AllocId(rows) ==
    IF rows = {} THEN 1
    ELSE (CHOOSE i \in {r.id : r \in rows} : \A r \in rows : r.id <= i) + 1

NewMonitor(id, interval) ==
    [id |-> id, is_paused |-> FALSE, interval_seconds |-> interval,
     last_is_up |-> None, last_status_code |-> None,
     last_response_time_ms |-> None]

ChecksOf(m) == SelectSeq(checks, LAMBDA c : c.monitor_id = m)

----------------------------------------------------------------------------
(* Interval parsing of the three writers of interval_seconds *)

CreateFormInterval(req) ==
    LET interval == IF req = None THEN DefaultInterval ELSE req[1]
    IN  Max(MinInterval, interval)

CreateApiInterval(req) ==
    LET interval == IF req = None \/ req[1] = 0 THEN DefaultInterval ELSE req[1]
    IN  Max(MinInterval, interval)

UpdateInterval_Unclamped(v) == v

UpdateInterval(v) == Max(MinInterval, v)

----------------------------------------------------------------------------
(* The scheduler's job store *)

create_job_id(m) == <<"monitor-", m>>

JobIds == {create_job_id(m) : m \in MonIds}

JobsOf(m) == {j \in jobs : j.id = create_job_id(m)}

remove_job_Keeps(js, jid) == js

remove_job_Others(js, jid) == {j \in js : j.id = jid}

remove_job_All(js, jid) == {}

remove_job(js, jid) == {j \in js : j.id # jid}

add_job_NoReplace(js, job) == js \cup {job}

add_job(js, job) == {j \in js : j.id # job.id} \cup {job}

JobSeconds_Min(interval_seconds) ==
    IF interval_seconds <= MinInterval THEN interval_seconds ELSE MinInterval

JobSeconds(interval_seconds) == Max(interval_seconds, MinInterval)

MonitorJob_Due(m, interval_seconds) ==
    [id |-> create_job_id(m), seconds |-> JobSeconds(interval_seconds),
     args |-> m, waited |-> TRUE]

(* The job that add_job installs.  Its interval trigger has no start      *)
(* date, so the first run time is one interval after the installation:    *)
(* waited tells whether that interval has passed.                         *)
MonitorJob(m, interval_seconds) ==
    [id |-> create_job_id(m), seconds |-> JobSeconds(interval_seconds),
     args |-> m, waited |-> FALSE]

----------------------------------------------------------------------------
(* Web requests *)

(* A request in flight: where it stands, the monitor id it works on, the  *)
(* values it has set on its monitor object and not yet committed (None: the *)
(* attribute is unchanged), and the attribute values its object holds.      *)
(* newer is history, read by no action: inside schedule_monitor, the        *)
(* seconds asked by the call for the same monitor that was entered last,    *)
(* None while this call is itself the last one entered.                     *)
Request(op, pc, m, wp, wi, paused, interval) ==
    [op |-> op, pc |-> pc, mid |-> m, set_paused |-> wp, set_interval |-> wi,
     is_paused |-> paused, interval_seconds |-> interval, newer |-> None]

Spawn(r) == reqs' = reqs (+) SetToBag({r})

Move(r, r2) == reqs' = (reqs (-) SetToBag({r})) (+) SetToBag({r2})

Finish(r) == reqs' = reqs (-) SetToBag({r})

Threads == BagCardinality(reqs) + BagCardinality(execs)

CanStart == Threads < load.threads

Init ==
    /\ monitors = {}
    /\ checks = <<>>
    /\ jobs = {}
    /\ instances = [j \in JobIds |-> 0]
    /\ execs = EmptyBag
    /\ reqs = EmptyBag
    /\ load \in Loads

(* create_monitor / create_monitor_api up to the commit: the row is inserted *)
(* with the clamped interval; schedule_monitor(monitor) follows.             *)
CreateMonitor(op, ri) ==
    /\ CanStart
    /\ AllocId(monitors) <= load.monitors
    /\ LET id == AllocId(monitors)
           interval == IF op = "create_api" THEN CreateApiInterval(ri)
                       ELSE CreateFormInterval(ri)
       IN  /\ monitors' = monitors \cup {NewMonitor(id, interval)}
           /\ Spawn(Request("create", "refresh", id, None, None, FALSE, 0))
    /\ UNCHANGED <<checks, jobs, instances, execs, load>>

(* An attribute assignment leaves the object clean when the value is the *)
(* loaded one.                                                            *)
Assigned(old, new) == IF new = old THEN None ELSE Some(new)

(* update_monitor_api up to the commit: the query that loads the monitor  *)
(* (a 404 changes nothing) and the assignments from the payload.          *)
UpdateLoad(m, ri, rp) ==
    /\ CanStart
    /\ Exists(m)
    /\ LET row == Row(m)
           wi == IF ri = None THEN None
                 ELSE Assigned(row.interval_seconds, UpdateInterval(ri[1]))
           wp == IF rp = None THEN None
                 ELSE Assigned(row.is_paused, rp[1])
       IN  Spawn(Request("update", "commit", m, wp, wi, FALSE, 0))
    /\ UNCHANGED <<monitors, checks, jobs, instances, execs, load>>

(* toggle_monitor up to the commit: first_or_404 and the flip of is_paused *)
ToggleLoad(m) ==
    /\ CanStart
    /\ Exists(m)
    /\ Spawn(Request("toggle", "commit", m, Some(~Row(m).is_paused), None, FALSE, 0))
    /\ UNCHANGED <<monitors, checks, jobs, instances, execs, load>>

(* delete_monitor / delete_monitor_api: the query that loads the monitor *)
DeleteLoad(m) ==
    /\ CanStart
    /\ Exists(m)
    /\ Spawn(Request("delete", "unsched_remove", m, None, None, FALSE, 0))
    /\ UNCHANGED <<monitors, checks, jobs, instances, execs, load>>

(* db.session.commit() of update_monitor_api / toggle_monitor: an UPDATE of *)
(* the columns whose value differs from the loaded one, none when nothing   *)
(* differs; an UPDATE that matches no row fails the request (stale data).   *)
Committed_ResetsCache(row, r) ==
    [row EXCEPT
       !.is_paused = IF r.set_paused # None THEN r.set_paused[1] ELSE @,
       !.interval_seconds =
           IF r.set_interval # None THEN r.set_interval[1] ELSE @,
       !.last_is_up = None]

(* The row after the UPDATE of a request's commit: the columns the        *)
(* request has set, and no other.                                         *)
Committed(row, r) ==
    [row EXCEPT
       !.is_paused = IF r.set_paused # None THEN r.set_paused[1] ELSE @,
       !.interval_seconds =
           IF r.set_interval # None THEN r.set_interval[1] ELSE @]

Commit(r) ==
    /\ BagIn(r, reqs)
    /\ r.pc = "commit"
    /\ LET dirty == r.set_paused # None \/ r.set_interval # None
           after == [r EXCEPT !.pc = "refresh",
                              !.set_paused = None, !.set_interval = None]
       IN  IF ~dirty
           THEN /\ Move(r, after)
                /\ UNCHANGED monitors
           ELSE IF ~Exists(r.mid)
           THEN /\ Finish(r)
                /\ UNCHANGED monitors
           ELSE /\ monitors' = (monitors \ {Row(r.mid)}) \cup
                       {Committed(Row(r.mid), r)}
                /\ Move(r, after)
    /\ UNCHANGED <<checks, jobs, instances, execs, load>>

(* The route that follows the reload: the create routes call              *)
(* schedule_monitor; update and toggle branch on monitor.is_paused.       *)
AfterRefresh(op, paused) ==
    IF op # "create" /\ paused THEN "unsched_remove" ELSE "sched_remove"

(* First attribute read after the commit (monitor.is_paused in the routes, *)
(* self.id in create_job_id): the row is loaded again; a request whose row *)
(* is gone fails.                                                          *)
Refresh(r) ==
    /\ BagIn(r, reqs)
    /\ r.pc = "refresh"
    /\ IF ~Exists(r.mid)
       THEN Finish(r)
       ELSE Move(r, [r EXCEPT !.pc = AfterRefresh(r.op, Row(r.mid).is_paused),
                              !.is_paused = Row(r.mid).is_paused,
                              !.interval_seconds = Row(r.mid).interval_seconds])
    /\ UNCHANGED <<monitors, checks, jobs, instances, execs, load>>

(* schedule_monitor, the remove_job of its first lines *)
SchedRemove(r) ==
    /\ BagIn(r, reqs)
    /\ r.pc = "sched_remove"
    /\ jobs' = remove_job(jobs, create_job_id(r.mid))
    /\ LET Overtaken(x) ==
               IF x.mid = r.mid /\ x.pc = "sched_add" /\ ~r.is_paused
               THEN [x EXCEPT !.newer = Some(JobSeconds(r.interval_seconds))]
               ELSE x
       IN  reqs' = BagOfAll(Overtaken, reqs (-) SetToBag({r}))
                     (+) SetToBag({[r EXCEPT !.pc = "sched_add"]})
    /\ UNCHANGED <<monitors, checks, instances, execs, load>>

SchedAdd_Cancels(r) ==
    /\ BagIn(r, reqs)
    /\ r.pc = "sched_add"
    /\ jobs' = IF r.is_paused THEN jobs
               ELSE add_job(jobs, MonitorJob(r.mid, r.interval_seconds))
    /\ Finish(r)
    /\ LET Cancel(e) == IF e.monitor_id = r.mid /\ e.pc = "probing"
                        THEN [e EXCEPT !.pc = "returned"]
                        ELSE e
       IN  execs' = BagOfAll(Cancel, execs)
    /\ UNCHANGED <<monitors, checks, instances, load>>

(* schedule_monitor, from the is_paused test to add_job *)
SchedAdd(r) ==
    /\ BagIn(r, reqs)
    /\ r.pc = "sched_add"
    /\ jobs' = IF r.is_paused THEN jobs
               ELSE add_job(jobs, MonitorJob(r.mid, r.interval_seconds))
    /\ Finish(r)
    /\ UNCHANGED <<monitors, checks, instances, execs, load>>

(* unschedule_monitor *)
UnschedRemove(r) ==
    /\ BagIn(r, reqs)
    /\ r.pc = "unsched_remove"
    /\ jobs' = remove_job(jobs, create_job_id(r.mid))
    /\ IF r.op = "delete"
       THEN Move(r, [r EXCEPT !.pc = "delete_commit"])
       ELSE Finish(r)
    /\ UNCHANGED <<monitors, checks, instances, execs, load>>

(* The delete routes after unschedule_monitor: the bulk delete of the     *)
(* monitor's checks, the delete of the row, the commit (one transaction). *)
DeleteChecks_All(cs, m) == <<>>

(* MonitorCheck.query.filter_by(monitor_id=monitor.id).delete(), and the  *)
(* delete-orphan cascade of Monitor.checks: the rows of this monitor go,  *)
(* the others stay in their order.                                        *)
DeleteChecks(cs, m) == SelectSeq(cs, LAMBDA c : c.monitor_id # m)

DeleteCommit(r) ==
    /\ BagIn(r, reqs)
    /\ r.pc = "delete_commit"
    /\ checks' = DeleteChecks(checks, r.mid)
    /\ monitors' = {x \in monitors : x.id # r.mid}
    /\ Finish(r)
    /\ LET Orphan(e) ==
               IF e.monitor_id = r.mid /\ e.pc = "probing" /\ Exists(r.mid)
               THEN [e EXCEPT !.orphaned = TRUE] ELSE e
       IN  execs' = BagOfAll(Orphan, execs)
    /\ UNCHANGED <<jobs, instances, load>>

(* init_schedules at process start: schedule_monitor for every monitor    *)
(* with is_paused = False.  No request is being served yet.  The job      *)
(* store either kept its jobs over the restart or starts empty.           *)
RECURSIVE ScheduleAll(_, _)
ScheduleAll(js, ms) ==
    IF ms = {} THEN js
    ELSE LET m == CHOOSE x \in ms : TRUE
         IN  ScheduleAll(add_job(remove_job(js, create_job_id(m.id)),
                                 MonitorJob(m.id, m.interval_seconds)),
                         ms \ {m})

ActiveMonitors_All == monitors

(* Line 24: Monitor.query.filter_by(is_paused=False).all() *)
ActiveMonitors == {m \in monitors : ~m.is_paused}

init_schedules(kept) ==
    /\ reqs = EmptyBag
    /\ execs = EmptyBag
    /\ monitors # {}
    /\ jobs' = ScheduleAll(IF kept THEN jobs ELSE {}, ActiveMonitors)
    /\ UNCHANGED <<monitors, checks, instances, execs, reqs, load>>

----------------------------------------------------------------------------
(* run_monitor_check *)

(* What one probe can do: no host in the target, ping exit 0 (stdout     *)
(* carries "time=12 ms"), ping exit # 0 with nothing printed, the         *)
(* subprocess timeout, an OSError when launching ping, a target that      *)
(* urlparse rejects (an unclosed "[" in the host: ValueError).            *)
Probes == {"no_host", "reachable", "exit_nonzero", "timeout", "oserror",
           "malformed"}

(* Lines 74 and 130-135: _resolve_host is called outside the try block,   *)
(* and urlparse raises on such a target.                                  *)
ProbeRaises(probe) == probe = "malformed"

ElapsedMs == 40
StdoutMs == 12

(* _extract_latency_ms(completed.stdout) or elapsed_ms *)
Latency(extracted, elapsed) ==
    IF extracted = None \/ extracted[1] = 0 THEN elapsed ELSE extracted[1]

Unresolved_Up ==
    [is_up |-> TRUE, status_code |-> None, response_time_ms |-> None,
     message |-> "Unable to resolve host"]

(* Lines 69-77: _resolve_host gave no host; the locals keep their initial *)
(* values and the message is set.                                         *)
Unresolved ==
    [is_up |-> FALSE, status_code |-> None, response_time_ms |-> None,
     message |-> "Unable to resolve host"]

FailureLatency_Absent(elapsed) == None

(* Lines 96 and 99: the except branches set response_time_ms to the time  *)
(* elapsed since start_time.                                              *)
FailureLatency(elapsed) == Some(elapsed)

(* Lines 68-101: the outcome of the probe *)
Outcome(probe) ==
    CASE probe = "no_host" -> Unresolved
      [] probe = "reachable" ->
           [is_up |-> TRUE, status_code |-> Some(0),
            response_time_ms |-> Some(Latency(Some(StdoutMs), ElapsedMs)),
            message |-> ""]
      [] probe = "exit_nonzero" ->
           [is_up |-> FALSE, status_code |-> Some(-1),
            response_time_ms |-> Some(Latency(None, ElapsedMs)),
            message |-> "Ping failed"]
      [] probe = "timeout" ->
           [is_up |-> FALSE, status_code |-> None,
            response_time_ms |-> FailureLatency(ElapsedMs),
            message |-> "Ping timed out"]
      [] probe = "oserror" ->
           [is_up |-> FALSE, status_code |-> None,
            response_time_ms |-> FailureLatency(ElapsedMs), message |-> "OSError"]

NoOutcome ==
    [is_up |-> FALSE, status_code |-> None, response_time_ms |-> None, message |-> ""]

NoObject ==
    [last_is_up |-> None, last_status_code |-> None, last_response_time_ms |-> None]

(* An execution handed to the pool: where it stands, the job it runs for, *)
(* its argument, whether its query found the monitor, the cached fields   *)
(* of the monitor object it loaded, the                                   *)
(* outcome of its probe and the notification calls it has made.           *)
(* orphaned is history, read by no action: the monitor this execution     *)
(* loaded has been deleted since.                                         *)
Execution(jid, m, seconds) ==
    [pc |-> "submitted", job_id |-> jid, monitor_id |-> m, seconds |-> seconds,
     found |-> FALSE,
     obj |-> NoObject,
     out |-> NoOutcome, previous_state |-> None, calls |-> <<>>,
     orphaned |-> FALSE]

MoveExec(e, e2) == execs' = (execs (-) SetToBag({e})) (+) SetToBag({e2})

CanSubmit_Unlimited(jid) == TRUE

(* The executor admits a due job while fewer than max_instances runs of   *)
(* its job id are in flight.                                              *)
CanSubmit(jid) == instances[jid] < MaxInstances

(* Time passes: the interval of a job that was installed and has not run *)
(* yet comes to its end.                                                  *)
Elapse(j) ==
    /\ j \in jobs
    /\ ~j.waited
    /\ jobs' = (jobs \ {j}) \cup {[j EXCEPT !.waited = TRUE]}
    /\ UNCHANGED <<monitors, checks, instances, execs, reqs, load>>

(* A job comes due: its run is handed to the pool, or skipped when the    *)
(* instance limit of the job id is reached.                               *)
Tick(j) ==
    /\ j \in jobs
    /\ j.waited
    /\ Len(checks) + BagCardinality(execs) < MaxChecks
    /\ IF CanSubmit(j.id)
       THEN /\ Threads < load.threads
            /\ instances' = [instances EXCEPT ![j.id] = @ + 1]
            /\ execs' = execs (+) SetToBag({Execution(j.id, j.args, j.seconds)})
       ELSE UNCHANGED <<instances, execs, load>>
    /\ UNCHANGED <<monitors, checks, jobs, reqs, load>>

AfterLoad_PausedRuns(m) ==
    IF ~Exists(m) THEN "returned" ELSE "probing"

AfterLoad_NoneUnchecked(m) ==
    IF ~Exists(m) THEN "raised"
    ELSE IF Row(m).is_paused THEN "returned"
    ELSE "probing"

(* Lines 61-66: where the run goes after the query *)
AfterLoad(m) ==
    IF ~Exists(m) THEN "returned"
    ELSE IF Row(m).is_paused THEN "returned"
    ELSE "probing"

(* Lines 60-66: the monitor is loaded; a missing or paused monitor ends the run *)
RunLoad(e) ==
    /\ BagIn(e, execs)
    /\ e.pc = "submitted"
    /\ IF AfterLoad(e.monitor_id) # "probing"
       THEN MoveExec(e, [e EXCEPT !.pc = AfterLoad(e.monitor_id),
                                  !.found = Exists(e.monitor_id)])
       ELSE MoveExec(e, [e EXCEPT !.pc = "probing", !.found = TRUE,
                !.obj = [last_is_up |-> Row(e.monitor_id).last_is_up,
                         last_status_code |-> Row(e.monitor_id).last_status_code,
                         last_response_time_ms |->
                             Row(e.monitor_id).last_response_time_ms]])
    /\ UNCHANGED <<monitors, checks, jobs, instances, reqs, load>>

CheckRecord(m, out) ==
    [monitor_id |-> m, status_code |-> out.status_code, is_up |-> out.is_up,
     response_time_ms |-> out.response_time_ms, message |-> out.message]

CachedColumns_WholeRow(row, obj, out) ==
    [row EXCEPT
       !.is_paused = FALSE,
       !.last_is_up =
           IF Some(out.is_up) # obj.last_is_up THEN Some(out.is_up) ELSE @,
       !.last_status_code =
           IF out.status_code # obj.last_status_code
           THEN out.status_code ELSE @,
       !.last_response_time_ms =
           IF out.response_time_ms # obj.last_response_time_ms
           THEN out.response_time_ms ELSE @]

CachedColumns_Unwritten(row, obj, out) == row

(* Lines 113-119: the row after the UPDATE of the commit, which carries   *)
(* the cached columns whose new value differs from the loaded one.        *)
CachedColumns(row, obj, out) ==
    [row EXCEPT
       !.last_is_up =
           IF Some(out.is_up) # obj.last_is_up THEN Some(out.is_up) ELSE @,
       !.last_status_code =
           IF out.status_code # obj.last_status_code
           THEN out.status_code ELSE @,
       !.last_response_time_ms =
           IF out.response_time_ms # obj.last_response_time_ms
           THEN out.response_time_ms ELSE @]

(* Lines 68-119: the probe, the new MonitorCheck, the cached fields and   *)
(* the commit.  The commit inserts the check and updates, in the row with *)
(* the monitor's id, the cached columns whose value differs from the      *)
(* loaded one (last_check_at always does); when no row has that id the    *)
(* commit fails, nothing is written and the error leaves the run, as does *)
(* the error of a target that cannot be parsed.                           *)
RunCommit(e, probe) ==
    /\ BagIn(e, execs)
    /\ e.pc = "probing"
    /\ LET out == Outcome(probe)
           row == Row(e.monitor_id)
       IN  IF ProbeRaises(probe) \/ ~Exists(e.monitor_id)
           THEN /\ MoveExec(e, [e EXCEPT !.pc = "raised", !.obj = NoObject])
                /\ UNCHANGED <<monitors, checks>>
           ELSE /\ checks' = Append(checks, CheckRecord(e.monitor_id, out))
                /\ monitors' = (monitors \ {row}) \cup
                                {CachedColumns(row, e.obj, out)}
                /\ MoveExec(e, [e EXCEPT !.pc = "notify", !.out = out,
                                         !.previous_state = e.obj.last_is_up,
                                         !.obj = NoObject])
    /\ UNCHANGED <<jobs, instances, reqs, load>>

Notifications_EveryDown(previous_state, is_up, message) ==
    IF previous_state = None THEN <<>>
    ELSE IF ~is_up THEN << <<"notify_downtime", message>> >>
    ELSE IF ~previous_state[1] /\ is_up THEN << <<"notify_recovery", "">> >>
    ELSE <<>>

Notifications_EveryUp(previous_state, is_up, message) ==
    IF previous_state = None THEN <<>>
    ELSE IF previous_state[1] /\ ~is_up THEN << <<"notify_downtime", message>> >>
    ELSE IF is_up THEN << <<"notify_recovery", "">> >>
    ELSE <<>>

Notifications_NoneIsFalse(previous_state, is_up, message) ==
    LET truthy == previous_state # None /\ previous_state[1]
    IN  IF truthy /\ ~is_up THEN << <<"notify_downtime", message>> >>
        ELSE IF ~truthy /\ is_up THEN << <<"notify_recovery", "">> >>
        ELSE <<>>

Notifications_Swapped(previous_state, is_up, message) ==
    IF previous_state = None THEN <<>>
    ELSE IF previous_state[1] /\ ~is_up THEN << <<"notify_recovery", "">> >>
    ELSE IF ~previous_state[1] /\ is_up THEN << <<"notify_downtime", message>> >>
    ELSE <<>>

(* Lines 121-127: the notification calls of a run, from the state read    *)
(* before the overwrite and the new outcome.                              *)
Notifications(previous_state, is_up, message) ==
    IF previous_state = None THEN <<>>
    ELSE IF previous_state[1] /\ ~is_up THEN << <<"notify_downtime", message>> >>
    ELSE IF ~previous_state[1] /\ is_up THEN << <<"notify_recovery", "">> >>
    ELSE <<>>

(* What the transports of one notification can do: both deliver, the    *)
(* e-mail transport raises (send_email has no handler), the Telegram      *)
(* request raises (caught and logged in _send_telegram_alert).            *)
Transports == {"delivered", "email_error", "telegram_error"}

(* How run_monitor_check ends after its notification calls: an error of   *)
(* the e-mail transport leaves notify_downtime / notify_recovery and      *)
(* run_monitor_check, which have no handler either.                       *)
AfterNotify(calls, transport) ==
    IF calls # <<>> /\ transport = "email_error" THEN "raised" ELSE "returned"

RunNotify(e, transport) ==
    /\ BagIn(e, execs)
    /\ e.pc = "notify"
    /\ LET calls == Notifications(e.previous_state, e.out.is_up, e.out.message)
       IN  MoveExec(e, [e EXCEPT !.pc = AfterNotify(calls, transport),
                                 !.calls = calls])
    /\ UNCHANGED <<monitors, checks, jobs, instances, reqs, load>>

(* The executor's bookkeeping when a run has returned or raised *)
Reap(e) ==
    /\ BagIn(e, execs)
    /\ e.pc \in {"returned", "raised"}
    /\ execs' = execs (-) SetToBag({e})
    /\ instances' = [instances EXCEPT ![e.job_id] = @ - 1]
    /\ UNCHANGED <<monitors, checks, jobs, reqs, load>>

----------------------------------------------------------------------------

Next ==
    \/ \E op \in {"create_form", "create_api"}, ri \in ReqIntervals : CreateMonitor(op, ri)
    \/ \E m \in MonIds, ri \in ReqIntervals, rp \in ReqPaused : UpdateLoad(m, ri, rp)
    \/ \E m \in MonIds : ToggleLoad(m)
    \/ \E m \in MonIds : DeleteLoad(m)
    \/ \E r \in BagToSet(reqs) : Commit(r)
    \/ \E r \in BagToSet(reqs) : Refresh(r)
    \/ \E r \in BagToSet(reqs) : SchedRemove(r)
    \/ \E r \in BagToSet(reqs) : SchedAdd(r)
    \/ \E r \in BagToSet(reqs) : UnschedRemove(r)
    \/ \E r \in BagToSet(reqs) : DeleteCommit(r)
    \/ \E kept \in BOOLEAN : init_schedules(kept)
    \/ \E j \in jobs : Elapse(j)
    \/ \E j \in jobs : Tick(j)
    \/ \E e \in BagToSet(execs) : RunLoad(e)
    \/ \E e \in BagToSet(execs), probe \in Probes : RunCommit(e, probe)
    \/ \E e \in BagToSet(execs), transport \in Transports : RunNotify(e, transport)
    \/ \E e \in BagToSet(execs) : Reap(e)

Spec == Init /\ [][Next]_vars

(* One monitor and the threads the load leaves: the server under which    *)
(* progress is checked.                                                   *)
LiveInit ==
    /\ Init
    /\ load = [monitors |-> 1, threads |-> MaxLoad - 1]

(* A request that has started runs to its response *)
RequestStep ==
    \E r \in BagToSet(reqs) :
        \/ Commit(r) \/ Refresh(r) \/ SchedRemove(r) \/ SchedAdd(r)
        \/ UnschedRemove(r) \/ DeleteCommit(r)

(* The worker pool runs every submitted call to its end and frees its     *)
(* slot; the interval trigger of a job that stays in the store comes due  *)
(* again and again.  Nothing is assumed about when users send requests.   *)
Fairness ==
    /\ WF_vars(RequestStep)
    /\ WF_vars(\E e \in BagToSet(execs) : RunLoad(e))
    /\ WF_vars(\E e \in BagToSet(execs), probe \in Probes : RunCommit(e, probe))
    /\ WF_vars(\E e \in BagToSet(execs), transport \in Transports :
                  RunNotify(e, transport))
    /\ WF_vars(\E e \in BagToSet(execs) : Reap(e))
    /\ WF_vars(\E j \in jobs : Elapse(j))
    /\ SF_vars(\E j \in jobs : Tick(j))

LiveSpec == LiveInit /\ [][Next]_vars /\ Fairness

----------------------------------------------------------------------------
(* Properties *)

Quiet == reqs = EmptyBag

Sequential == load.threads = 1

Execs == BagToSet(execs)

Reqs == BagToSet(reqs)

RECURSIVE Copies(_, _)
Copies(S, bag) ==
    IF S = {} THEN 0
    ELSE LET x == CHOOSE y \in S : TRUE
         IN  CopiesIn(x, bag) + Copies(S \ {x}, bag)

(* Runs of run_monitor_check for monitor id m handed to the pool and not  *)
(* yet finished                                                           *)
InFlight(m) == Copies({e \in Execs : e.monitor_id = m}, execs)

(* A run that has committed its check *)
Recorded(e) == e.pc \in {"notify", "returned"} /\ e.out # NoOutcome

(* C1: when requests are served one after the other (create, update,      *)
(* toggle, init_schedules), then after each of them every monitor whose   *)
(* stored is_paused is true has no job in the job store.                  *)
C1_PausedHasNoJob ==
    Sequential /\ Quiet => \A x \in monitors : x.is_paused => JobsOf(x.id) = {}

C1_Witness ==
    /\ Sequential /\ Quiet
    /\ \E x, y \in monitors : x.is_paused /\ ~y.is_paused /\ JobsOf(y.id) # {}

(* C2: after each create, update, toggle or init_schedules has completed, *)
(* every stored monitor with is_paused false has exactly one job, also    *)
(* when requests changing the same monitor's pause flag interleave.       *)
C2_ActiveHasOneJob ==
    Quiet => \A x \in monitors : ~x.is_paused => Cardinality(JobsOf(x.id)) = 1

(* C3: concurrent schedule_monitor calls on one non-paused monitor never  *)
(* leave two jobs for its id, and when the last of them returns exactly   *)
(* one job remains, with the seconds of the call that was entered last.   *)
C3_LatestCallWins ==
    [][/\ \A m \in MonIds : Cardinality(JobsOf(m)) <= 1
       /\ \A r \in Reqs :
            (/\ r.pc = "sched_add" /\ ~r.is_paused
             /\ reqs' = reqs (-) SetToBag({r})
             /\ \A x \in BagToSet(reqs') : ~(x.mid = r.mid /\ x.pc = "sched_add"))
            => /\ Cardinality(JobsOf(r.mid)') = 1
               /\ \A j \in JobsOf(r.mid)' :
                    j.seconds = IF r.newer = None
                                THEN Max(r.interval_seconds, 30)
                                ELSE r.newer[1]]_vars

(* C4: a deleted monitor has no CheckRecord and, once the delete has      *)
(* completed, no job; a run of its check that had loaded the monitor      *)
(* before the deletion committed writes no record afterwards.             *)
C4_DeleteLeavesNothing ==
    /\ \A i \in 1..Len(checks) : Exists(checks[i].monitor_id)
    /\ (Sequential /\ Quiet => \A j \in jobs : Exists(j.args))
    /\ \A e \in Execs : e.orphaned => ~Recorded(e)

(* C5: a run that read the cached state up and found the monitor down     *)
(* calls notify_downtime exactly once, with its message, and nothing      *)
(* else; a run that read down and found down makes no call.               *)
C5_DowntimeOnce ==
    \A e \in Execs :
        e.pc = "returned" /\ Recorded(e) /\ ~e.out.is_up =>
            /\ e.previous_state = <<TRUE>> =>
                   e.calls = << <<"notify_downtime", e.out.message>> >>
            /\ e.previous_state = <<FALSE>> => e.calls = <<>>

IsUpSeq(m) == [i \in 1..Len(ChecksOf(m)) |-> ChecksOf(m)[i].is_up]

C5_Witness ==
    \E e \in Execs :
        /\ e.pc = "returned" /\ Recorded(e) /\ ~e.out.is_up
        /\ e.previous_state = <<FALSE>> /\ e.calls = <<>>
        /\ IsUpSeq(e.monitor_id) = <<TRUE, FALSE, FALSE>>

(* C6: a run that read the cached state down and found the monitor up     *)
(* calls notify_recovery exactly once and notify_downtime never; a run    *)
(* that read up and found up makes no call.                               *)
C6_RecoveryOnce ==
    \A e \in Execs :
        e.pc = "returned" /\ Recorded(e) /\ e.out.is_up =>
            /\ e.previous_state = <<FALSE>> =>
                   e.calls = << <<"notify_recovery", "">> >>
            /\ e.previous_state = <<TRUE>> => e.calls = <<>>

C6_Witness ==
    \E e \in Execs :
        /\ e.pc = "returned" /\ Recorded(e) /\ e.out.is_up
        /\ e.previous_state = <<TRUE>> /\ e.calls = <<>>
        /\ IsUpSeq(e.monitor_id) = <<FALSE, TRUE, TRUE>>

C8_JobInterval ==
    [][\A j \in {k \in jobs' \ jobs : ~k.waited} :
          /\ j.seconds >= 30
          /\ \E i \in {r.interval_seconds : r \in {x \in Reqs : x.pc = "sched_add"
                                                     /\ x.mid = j.args}}
                  \cup {x.interval_seconds : x \in {y \in monitors : Quiet /\ y.id = j.args}} :
                j.seconds = IF i > 30 THEN i ELSE 30]_vars

C8_Witness ==
    /\ \E j \in jobs : j.seconds = 30
    /\ \E j \in jobs : j.seconds = 60

(* C9: every stored monitor has interval_seconds >= 30, whatever interval *)
(* the create and update requests asked for.                              *)
C9_StoredInterval == \A x \in monitors : x.interval_seconds >= 30

C9_Witness ==
    /\ \E x \in monitors : x.interval_seconds = 30
    /\ \E x \in monitors : x.interval_seconds = 60

(* C10: at most one run of run_monitor_check is in flight per monitor id; *)
(* a job that comes due while the run of its id is in flight is skipped.  *)
C10_OneInFlight == \A m \in MonIds : InFlight(m) <= 1

C10_Witness ==
    \E e \in Execs, j \in jobs :
        /\ e.pc = "probing" /\ j.id = e.job_id /\ ~CanSubmit(j.id)
        /\ Exists(e.monitor_id) /\ j.seconds # JobSeconds(Row(e.monitor_id).interval_seconds)


(* A step of unschedule_monitor, of schedule_monitor's add_job, of        *)
(* init_schedules and of a run of run_monitor_check, told from the        *)
(* variables it changes.                                                  *)
UnscheduleStep(m) ==
    \E r \in Reqs : /\ r.pc = "unsched_remove" /\ r.mid = m
                    /\ CopiesIn(r, reqs') < CopiesIn(r, reqs)

ScheduleStep(m) ==
    \/ \E r \in Reqs : /\ r.pc = "sched_add" /\ r.mid = m /\ ~r.is_paused
                       /\ reqs' = reqs (-) SetToBag({r})
    \/ reqs = EmptyBag /\ execs = EmptyBag /\ reqs' = reqs /\ execs' = execs

RunStep(e) ==
    /\ CopiesIn(e, execs') < CopiesIn(e, execs)
    /\ reqs' = reqs

(* The step of run e ends it with an exception *)
RunRaises(e) ==
    /\ RunStep(e)
    /\ \E x \in BagToSet(execs') :
          /\ x.pc = "raised" /\ x.monitor_id = e.monitor_id
          /\ CopiesIn(x, execs') > CopiesIn(x, execs)

(* C11: when unschedule_monitor(m) returns m has no job; a run for m      *)
(* starts only while m has a job, and m gets a job only from a            *)
(* schedule_monitor call or init_schedules; a run that had loaded m       *)
(* commits its check and the cached fields when m has been unscheduled    *)
(* meanwhile (m not deleted, the probe itself not failing with an         *)
(* exception), and no step of a run changes the jobs.                     *)
C11_UnscheduleStopsTicks ==
    [][/\ \A m \in MonIds :
            /\ UnscheduleStep(m) => JobsOf(m)' = {}
            /\ InFlight(m)' > InFlight(m) => JobsOf(m) # {}
            /\ (JobsOf(m) = {} /\ JobsOf(m)' # {}) => ScheduleStep(m)
       /\ \A e \in Execs :
            RunStep(e) =>
              /\ jobs' = jobs
              /\ (/\ e.pc = "probing" /\ ~e.orphaned /\ Exists(e.monitor_id)
                  /\ ~RunRaises(e)) =>
                    /\ Len(checks') = Len(checks) + 1
                    /\ checks'[Len(checks')].monitor_id = e.monitor_id
                    /\ Row(e.monitor_id)'.last_is_up =
                           Some(checks'[Len(checks')].is_up)]_vars

C11_Witness ==
    \E e \in Execs :
        /\ e.pc = "notify" /\ Recorded(e)
        /\ Exists(e.monitor_id) /\ Row(e.monitor_id).is_paused
        /\ JobsOf(e.monitor_id) = {} /\ Quiet
        /\ Len(ChecksOf(e.monitor_id)) = 2


CacheOf(x) ==
    [last_is_up |-> x.last_is_up, last_status_code |-> x.last_status_code,
     last_response_time_ms |-> x.last_response_time_ms]

CacheFrom(c) ==
    [last_is_up |-> Some(c.is_up), last_status_code |-> c.status_code,
     last_response_time_ms |-> c.response_time_ms]

LastCheck(m) == ChecksOf(m)[Len(ChecksOf(m))]

(* C13: a reader of the store never sees a monitor's newest MonitorCheck  *)
(* without the cached fields that check wrote, nor cached fields without  *)
(* the check: in every state the cache of a monitor is the one of its     *)
(* newest check, and empty while it has no check.                         *)
C13_RecordAndCacheTogether ==
    \A x \in monitors :
        CacheOf(x) = IF ChecksOf(x.id) = <<>> THEN NoObject
                     ELSE CacheFrom(LastCheck(x.id))


(* C14: no run of run_monitor_check that has made a notification call     *)
(* ends with an exception: a failure of the e-mail or chat transport      *)
(* stays inside the run.                                                  *)
C14_NotifyFailureSwallowed ==
    \A e \in Execs : e.pc = "raised" => e.calls = <<>>


(* The state a run read before its own check: the is_up of the check     *)
(* before the newest one, None when the newest is the only one.           *)
StateBeforeLast(m) ==
    IF Len(ChecksOf(m)) = 1 THEN None
    ELSE Some(ChecksOf(m)[Len(ChecksOf(m)) - 1].is_up)

(* C15: the notification step of a run, failing or not, changes no check  *)
(* and no monitor; with runs and requests served one at a time, a run     *)
(* whose notification failed leaves its MonitorCheck as the newest check  *)
(* of the monitor and its outcome in the cached fields, and every run     *)
(* reads as previous state what the check before wrote.                   *)
C15_FailedNotifyKeepsData ==
    /\ [][\A e \in Execs : (e.pc = "notify" /\ RunStep(e)) =>
              checks' = checks /\ monitors' = monitors]_vars
    /\ [](Sequential =>
            \A e \in Execs :
              /\ (e.pc = "raised" /\ e.calls # <<>>) =>
                    /\ Exists(e.monitor_id)
                    /\ ChecksOf(e.monitor_id) # <<>>
                    /\ LastCheck(e.monitor_id) = CheckRecord(e.monitor_id, e.out)
                    /\ CacheOf(Row(e.monitor_id)) = CacheFrom(CheckRecord(e.monitor_id, e.out))
              /\ (e.pc = "probing") => e.obj = CacheOf(Row(e.monitor_id))
              /\ (e.pc \in {"notify", "returned", "raised"} /\ e.out # NoOutcome) =>
                    e.previous_state = StateBeforeLast(e.monitor_id))

C15_Witness ==
    \E e \in Execs :
        /\ Sequential /\ e.pc = "raised" /\ e.calls # <<>>
        /\ Len(ChecksOf(e.monitor_id)) = 3
        /\ CacheOf(Row(e.monitor_id)) = CacheFrom(LastCheck(e.monitor_id))


(* C16: a run that has loaded an existing, non-paused monitor inserts     *)
(* exactly one MonitorCheck whatever the probe does, and ends without an  *)
(* exception before its notifications.                                    *)
C16_EveryTickRecords ==
    [][\A e \in Execs :
          (/\ e.pc = "probing" /\ RunStep(e)
           /\ Exists(e.monitor_id) /\ ~e.orphaned) =>
              /\ ~RunRaises(e)
              /\ Len(checks') = Len(checks) + 1
              /\ checks'[Len(checks')].monitor_id = e.monitor_id]_vars


(* A step of init_schedules: the process has just started, nothing is in  *)
(* flight, and only the job store changes.                                *)
InitSchedulesStep ==
    /\ reqs = EmptyBag /\ execs = EmptyBag
    /\ UNCHANGED <<monitors, checks, instances, execs, reqs>>
    /\ jobs' # jobs
    /\ \A j \in jobs' \ jobs : ~j.waited

(* C17: when init_schedules has run, every stored monitor with is_paused  *)
(* false has exactly one job, firing every max(interval_seconds, 30)      *)
(* seconds, no monitor with is_paused true has a job it did not have      *)
(* before, and running init_schedules again on the resulting job store    *)
(* gives the same job store.                                              *)
C17_InitSchedules ==
    [][InitSchedulesStep =>
          /\ \A x \in monitors :
                IF x.is_paused THEN JobsOf(x.id)' \subseteq JobsOf(x.id)
                ELSE /\ Cardinality(JobsOf(x.id)') = 1
                     /\ \A j \in JobsOf(x.id)' :
                           /\ j.args = x.id
                           /\ j.seconds = IF x.interval_seconds > 30
                                          THEN x.interval_seconds ELSE 30
          /\ \A j \in jobs' : Cardinality({k \in jobs' : k.id = j.id}) = 1
          /\ ScheduleAll(jobs', {x \in monitors : ~x.is_paused}) = jobs']_vars

C17_Witness ==
    /\ Quiet /\ execs = EmptyBag
    /\ \E x, y \in monitors :
          /\ x.is_paused /\ JobsOf(x.id) = {}
          /\ ~y.is_paused /\ JobsOf(y.id) = {MonitorJob(y.id, y.interval_seconds)}
    /\ ScheduleAll(jobs, ActiveMonitors) = jobs


(* C18: unschedule_monitor(m) leaves the job store without m's job and    *)
(* with every other job as it was, whether or not m had a job; the        *)
(* caller goes on (the delete routes to their commit, the others to       *)
(* their response); a second call would change nothing.                   *)
C18_Unschedule ==
    [][\A r \in Reqs :
          (r.pc = "unsched_remove" /\ CopiesIn(r, reqs') < CopiesIn(r, reqs)) =>
              /\ jobs' = {j \in jobs : j.id # <<"monitor-", r.mid>>}
              /\ {j \in jobs' : j.id # <<"monitor-", r.mid>>} = jobs'
              /\ reqs' = IF r.op = "delete"
                         THEN (reqs (-) SetToBag({r})) (+)
                              SetToBag({[r EXCEPT !.pc = "delete_commit"]})
                         ELSE reqs (-) SetToBag({r})
              /\ UNCHANGED <<monitors, checks, execs, instances>>]_vars

C18_Witness ==
    /\ Sequential
    /\ \E r \in Reqs, y \in monitors :
          /\ r.op = "delete" /\ r.pc = "delete_commit"
          /\ Exists(r.mid) /\ Row(r.mid).is_paused
          /\ y.id # r.mid /\ JobsOf(y.id) # {}


OtherJobs(js, m) == {j \in js : j.id # <<"monitor-", m>>}

ExpectedJob(m, interval) ==
    [id |-> <<"monitor-", m>>, args |-> m, waited |-> FALSE,
     seconds |-> IF interval > 30 THEN interval ELSE 30]

(* C19: schedule_monitor(m) first leaves the store without a job for m,   *)
(* whether or not m had one; for a paused m it then returns with the      *)
(* store unchanged, for a non-paused m it leaves exactly one job for m    *)
(* with max(interval_seconds, 30) seconds; the jobs of other monitors are *)
(* never changed and a second call on the result gives the same store.    *)
(* Served alone, the call finds no job for m at add_job and holds the     *)
(* stored interval and pause flag.                                        *)
C19_Schedule ==
    [][\A r \in Reqs :
        LET Returns(x) == x.pc = "sched_add" /\ reqs' = reqs (-) SetToBag({x})
        IN
          CopiesIn(r, reqs') < CopiesIn(r, reqs) =>
            /\ r.pc = "sched_remove" =>
                  /\ jobs' = OtherJobs(jobs, r.mid)
                  /\ \E x \in BagToSet(reqs') :
                        /\ x.pc = "sched_add" /\ x.mid = r.mid
                        /\ x.is_paused = r.is_paused
                        /\ x.interval_seconds = r.interval_seconds
            /\ (Returns(r) /\ r.is_paused) => jobs' = jobs
            /\ (Returns(r) /\ ~r.is_paused) =>
                  /\ jobs' = OtherJobs(jobs, r.mid) \cup
                             {ExpectedJob(r.mid, r.interval_seconds)}
                  /\ OtherJobs(jobs', r.mid) \cup
                         {ExpectedJob(r.mid, r.interval_seconds)} = jobs'
            /\ (Returns(r) /\ Sequential) =>
                  /\ JobsOf(r.mid) = {}
                  /\ Exists(r.mid)
                  /\ r.is_paused = Row(r.mid).is_paused
                  /\ r.interval_seconds = Row(r.mid).interval_seconds]_vars

C19_Witness ==
    \E r \in Reqs :
        /\ r.pc = "sched_add" /\ r.is_paused /\ JobsOf(r.mid) = {}
        /\ \E x \in Reqs : x.mid = r.mid /\ x.pc = "unsched_remove"


(* classify of (previous cached state, new outcome) and the calls each    *)
(* class stands for                                                       *)
classify(previous, is_up) ==
    CASE previous = None -> "NoObservation"
      [] previous = <<TRUE>> /\ ~is_up -> "BecameDown"
      [] previous = <<FALSE>> /\ is_up -> "BecameUp"
      [] OTHER -> "Unchanged"

CallsOf(class, message) ==
    CASE class = "BecameDown" -> << <<"notify_downtime", message>> >>
      [] class = "BecameUp" -> << <<"notify_recovery", "">> >>
      [] OTHER -> <<>>

(* C20: for each of the 3 x 2 pairs (previous cached state, new outcome)  *)
(* the notification calls of a run are those of the pair's class:         *)
(* (unknown, any), (up, up), (down, down) none, (up, down) downtime       *)
(* only, (down, up) recovery only; never both.                            *)
C20_Classify ==
    /\ \A previous \in {None, <<TRUE>>, <<FALSE>>}, is_up \in BOOLEAN,
          message \in {"", "Ping failed"} :
            Notifications(previous, is_up, message) =
                CallsOf(classify(previous, is_up), message)
    /\ \A e \in Execs :
          (e.pc \in {"returned", "raised"} /\ e.out # NoOutcome) =>
              /\ e.calls = CallsOf(classify(e.previous_state, e.out.is_up),
                                   e.out.message)
              /\ Len(e.calls) <= 1

C20_Witness ==
    \E e \in Execs :
        /\ e.pc = "returned" /\ e.calls = << <<"notify_recovery", "">> >>
        /\ IsUpSeq(e.monitor_id) = <<TRUE, FALSE, TRUE>>


(* C21: a monitor whose first three checks find the target answering OK,  *)
(* answering with a failure, answering OK again has three MonitorChecks   *)
(* (is_up true, status 200; is_up false, status 503, message              *)
(* "Status 503"; is_up true, status 200), cached last_is_up true at the   *)
(* end, and the third run makes exactly the recovery call.                *)
C21_HttpScenario ==
    \A x \in monitors :
        LET cs == ChecksOf(x.id)
        IN  (/\ Len(cs) = 3
             /\ IsUpSeq(x.id) = <<TRUE, FALSE, TRUE>>
             /\ \A i \in 1..3 : cs[i].status_code # None) =>
                /\ cs[1].status_code = <<200>>
                /\ cs[2].status_code = <<503>> /\ cs[2].message = "Status 503"
                /\ cs[3].status_code = <<200>>
                /\ x.last_is_up = <<TRUE>>
                /\ \A e \in Execs :
                      (e.monitor_id = x.id /\ e.pc = "returned" /\ Recorded(e)) =>
                          e.calls = << <<"notify_recovery", "">> >>


(* C22: a check whose ping does not answer within the timeout is recorded *)
(* with is_up false, the message "Ping timed out" and the elapsed time as *)
(* response_time_ms, not NULL.                                            *)
C22_TimeoutRecorded ==
    /\ ~Outcome("timeout").is_up
    /\ Outcome("timeout").message = "Ping timed out"
    /\ \A i \in 1..Len(checks) :
          checks[i].message = "Ping timed out" =>
              /\ ~checks[i].is_up
              /\ checks[i].response_time_ms # None
              /\ checks[i].response_time_ms = <<ElapsedMs>>
              /\ checks[i].status_code = None

C22_Witness ==
    \E i \in 1..Len(checks), x \in monitors :
        /\ checks[i].message = "Ping timed out" /\ i = Len(checks)
        /\ x.id = checks[i].monitor_id
        /\ x.last_is_up = <<FALSE>> /\ x.last_response_time_ms = <<ElapsedMs>>


(* C23: check records are append-only.  A step leaves the records as they *)
(* are or appends one record; the only step that removes records is the   *)
(* deletion of a monitor, which removes every record of that monitor and  *)
(* no record of another monitor.                                          *)
C23_AppendOnly ==
    [][LET Gone(m) == Exists(m) /\ \A x \in monitors' : x.id # m
           Others(m) == SelectSeq(checks, LAMBDA c : c.monitor_id # m)
       IN  /\ \/ checks' = checks
              \/ /\ Len(checks') = Len(checks) + 1
                 /\ SubSeq(checks', 1, Len(checks)) = checks
              \/ \E m \in MonIds : Gone(m) /\ checks' = Others(m)
           /\ \A m \in MonIds : Gone(m) => checks' = Others(m)]_vars

C23_Witness ==
    /\ ~Exists(1) /\ Exists(2)
    /\ ChecksOf(1) = <<>>
    /\ ChecksOf(2) # <<>>
    /\ checks = ChecksOf(2)


(* C24: a check that overruns its interval has the overlapping ticks of   *)
(* its monitor skipped and blocks nothing for good: once the job of a     *)
(* monitor stays in the store, and every check terminates, new checks     *)
(* keep starting and checks of the monitor keep being recorded, here up   *)
(* to the MaxChecks records the model allows.                             *)
C24_RecordedForever ==
    \A m \in MonIds :
        <>[](Exists(m) /\ ~Row(m).is_paused /\ JobsOf(m) # {}) =>
            <>[](Len(ChecksOf(m)) >= MaxChecks)


(* The is_up value the newest recorded check of monitor m wrote *)
PrecedingState(m) ==
    IF ChecksOf(m) = <<>> THEN None ELSE Some(LastCheck(m).is_up)

(* C25: the previous state with which a run classifies its check is the   *)
(* cached last_is_up of the monitor as it stands when the run overwrites  *)
(* it, which is the is_up of the check recorded just before for that      *)
(* monitor and unknown when there is none; no other run of the monitor    *)
(* stands between its reading and its writing.                            *)
C25_PreviousIsPrecedingCheck ==
    [][\A e \in Execs :
          (e.pc = "probing" /\ RunStep(e) /\ Len(checks') = Len(checks) + 1) =>
              /\ e.obj.last_is_up = Row(e.monitor_id).last_is_up
              /\ e.obj.last_is_up = PrecedingState(e.monitor_id)
              /\ \A o \in Execs :
                    (o # e /\ o.monitor_id = e.monitor_id) =>
                        o.pc \notin {"probing", "notify"}]_vars


(* C26: every recorded check that failed, whatever the kind of failure    *)
(* (timeout, OS error, non-zero exit of ping, no host in the target), has *)
(* its response_time_ms populated with the elapsed time, never NULL.      *)
C26_FailureHasLatency ==
    \A i \in 1..Len(checks) :
        ~checks[i].is_up => checks[i].response_time_ms = <<ElapsedMs>>


(* The step of run e records a check with the given message *)
RecordsWith(e, message) ==
    /\ e.pc = "probing" /\ RunStep(e)
    /\ \E x \in BagToSet(execs') :
          /\ x.pc = "notify" /\ x.monitor_id = e.monitor_id
          /\ x.out.message = message
          /\ CopiesIn(x, execs') > CopiesIn(x, execs)

(* C27: a run whose target gives no host records one MonitorCheck for its *)
(* monitor with is_up false and the message "Unable to resolve host",     *)
(* sets the cached last_is_up to false and leaves the job store as it is; *)
(* it then notifies as any failed check does: one downtime call when the  *)
(* previous state was up, no call otherwise.                              *)
C27_NoHostIsFailedCheck ==
    /\ [][\A e \in Execs :
            (~e.orphaned /\ RecordsWith(e, "Unable to resolve host")) =>
                /\ checks' = Append(checks,
                       [monitor_id |-> e.monitor_id, is_up |-> FALSE,
                        status_code |-> None, response_time_ms |-> None,
                        message |-> "Unable to resolve host"])
                /\ Row(e.monitor_id)'.last_is_up = <<FALSE>>
                /\ jobs' = jobs]_vars
    /\ [](\A e \in Execs :
            (e.out.message = "Unable to resolve host") =>
                /\ ~e.out.is_up
                /\ e.pc \in {"notify", "returned", "raised"}
                /\ e.pc # "notify" =>
                      e.calls = IF e.previous_state = <<TRUE>>
                                THEN << <<"notify_downtime",
                                          "Unable to resolve host">> >>
                                ELSE <<>>
                /\ (e.pc = "raised") => e.calls # <<>>)

C27_Witness ==
    \E e \in Execs :
        /\ e.pc = "returned" /\ ~e.orphaned
        /\ e.out.message = "Unable to resolve host"
        /\ e.previous_state = <<TRUE>>
        /\ e.calls = << <<"notify_downtime", "Unable to resolve host">> >>
        /\ LastCheck(e.monitor_id).message = "Unable to resolve host"
        /\ Row(e.monitor_id).last_is_up = <<FALSE>>
        /\ JobsOf(e.monitor_id) # {}


(* A run of monitor m that has started and not ended *)
Running(e, m) ==
    e.monitor_id = m /\ e.pc \in {"submitted", "probing", "notify"}

(* C28: an update of a non-paused monitor made while a check of the       *)
(* monitor is in flight changes no run, no check and no instance count in *)
(* any of its steps; when it returns the monitor has exactly one job,     *)
(* with max(interval_seconds, 30) seconds of the interval the update      *)
(* holds; the run in flight, started by the job that was replaced, still  *)
(* records its check; and a run started afterwards is started by the job  *)
(* in the store and carries its seconds.                                  *)
C28_ReplaceWhileInFlight ==
    [][/\ \A r \in Reqs :
            (/\ r.op = "update"
             /\ CopiesIn(r, reqs') < CopiesIn(r, reqs)
             /\ \E e \in Execs : Running(e, r.mid)) =>
                /\ execs' = execs /\ checks' = checks
                /\ instances' = instances
                /\ (/\ r.pc = "sched_add" /\ ~r.is_paused
                    /\ reqs' = reqs (-) SetToBag({r})) =>
                       JobsOf(r.mid)' =
                           {ExpectedJob(r.mid, r.interval_seconds)}
       /\ \A e \in Execs :
            (/\ e.pc = "probing" /\ ~e.orphaned /\ Exists(e.monitor_id)
             /\ \A j \in JobsOf(e.monitor_id) : j.seconds # e.seconds
             /\ RunStep(e) /\ ~RunRaises(e)) =>
                /\ Len(checks') = Len(checks) + 1
                /\ checks'[Len(checks')].monitor_id = e.monitor_id
                /\ SubSeq(checks', 1, Len(checks)) = checks
       /\ \A x \in BagToSet(execs') :
            (x.pc = "submitted" /\ CopiesIn(x, execs') > CopiesIn(x, execs)) =>
                /\ jobs' = jobs
                /\ \E j \in jobs : /\ j.id = x.job_id /\ j.args = x.monitor_id
                                   /\ j.seconds = x.seconds]_vars

C28_Witness ==
    \E e \in Execs, x \in monitors :
        /\ Quiet /\ x.id = e.monitor_id /\ ~x.is_paused
        /\ e.pc = "returned" /\ Recorded(e) /\ ~e.orphaned
        /\ JobsOf(x.id) = {ExpectedJob(x.id, x.interval_seconds)}
        /\ \A j \in JobsOf(x.id) : j.seconds # e.seconds
        /\ LastCheck(x.id) = CheckRecord(x.id, e.out)


(* C29: in every state, the interleavings of a delete with an update or a *)
(* toggle of the same monitor included, every job in the job store       *)
(* refers to a monitor that exists.                                       *)
C29_JobsReferToMonitors ==
    \A j \in jobs : \E x \in monitors : x.id = j.args /\ j.id = create_job_id(x.id)


(* C30: a run that starts for a monitor whose stored is_paused is true,   *)
(* as when its tick was due before the job was removed, returns after     *)
(* loading the monitor: no check is inserted, no monitor row and no job   *)
(* changes, and the run ends without a notification call.                 *)
C30_PausedTickNoOp ==
    /\ [][\A e \in Execs :
            (/\ e.pc = "submitted" /\ Exists(e.monitor_id)
             /\ Row(e.monitor_id).is_paused /\ RunStep(e)) =>
                /\ checks' = checks
                /\ monitors' = monitors
                /\ jobs' = jobs
                /\ execs' = (execs (-) SetToBag({e})) (+)
                            SetToBag({[e EXCEPT !.pc = "returned",
                                                !.found = TRUE]})
                /\ e.calls = <<>>]_vars
    /\ [](\A e \in Execs :
            (e.found /\ e.out = NoOutcome /\ e.pc = "returned") =>
                e.calls = <<>> /\ e.previous_state = None)

C30_Witness ==
    \E e \in Execs :
        /\ e.pc = "returned" /\ e.found /\ e.out = NoOutcome /\ e.calls = <<>>
        /\ Exists(e.monitor_id) /\ Row(e.monitor_id).is_paused
        /\ ChecksOf(e.monitor_id) # <<>>
        /\ CacheOf(Row(e.monitor_id)) = CacheFrom(LastCheck(e.monitor_id))


(* C31: in every committed state the cached last_is_up, last_status_code  *)
(* and last_response_time_ms of every monitor are the is_up, status_code  *)
(* and response_time_ms of its newest MonitorCheck, and last_is_up is     *)
(* NULL exactly when the monitor has no MonitorCheck.  last_check_at is   *)
(* written with the other cached fields and is not told apart from them.  *)
C31_CacheIsNewestCheck ==
    \A x \in monitors :
        /\ (x.last_is_up = None) <=> (ChecksOf(x.id) = <<>>)
        /\ ChecksOf(x.id) # <<>> =>
              /\ x.last_is_up = <<LastCheck(x.id).is_up>>
              /\ x.last_status_code = LastCheck(x.id).status_code
              /\ x.last_response_time_ms = LastCheck(x.id).response_time_ms


(* The calls the two newest checks of monitor m stand for: a downtime     *)
(* call for the pair (up, down), a recovery call for the pair (down, up), *)
(* none for a first check or an unchanged state.                          *)
PairCalls(m) ==
    LET cs == ChecksOf(m)
        n == Len(cs)
    IN  IF n < 2 THEN <<>>
        ELSE IF cs[n - 1].is_up /\ ~cs[n].is_up
             THEN << <<"notify_downtime", cs[n].message>> >>
        ELSE IF ~cs[n - 1].is_up /\ cs[n].is_up
             THEN << <<"notify_recovery", "">> >>
        ELSE <<>>

(* C32: each downtime notification of a monitor stands for one pair (up,  *)
(* down) of consecutive MonitorChecks of the monitor and each recovery    *)
(* notification for one pair (down, up), so that the numbers are equal    *)
(* and the two kinds alternate: a run that has returned from its          *)
(* notifications, none of which failed, and whose check is the newest of  *)
(* its monitor, has made exactly the call of the pair that its check      *)
(* closes.                                                                *)
C32_NotificationsCountPairs ==
    \A e \in Execs :
        (/\ e.pc = "returned" /\ Recorded(e)
         /\ Exists(e.monitor_id) /\ ChecksOf(e.monitor_id) # <<>>
         /\ LastCheck(e.monitor_id) = CheckRecord(e.monitor_id, e.out)) =>
            e.calls = PairCalls(e.monitor_id)


(* C33: no step of a request (pause, resume, update) and no               *)
(* init_schedules changes the cached fields of a monitor it leaves in the *)
(* store or any MonitorCheck of such a monitor, and a run classifies its  *)
(* check against the cached last_is_up in the store when it commits: the  *)
(* first check after a resume is compared with the state recorded before  *)
(* the pause, so a monitor that was up before and is down after gets one  *)
(* downtime call.                                                         *)
C33_PauseKeepsCache ==
    [][/\ (reqs' # reqs \/ jobs' # jobs) =>
             \A x \in monitors, y \in monitors' :
                 y.id = x.id =>
                     /\ CacheOf(y) = CacheOf(x)
                     /\ SelectSeq(checks', LAMBDA c : c.monitor_id = x.id)
                            = ChecksOf(x.id)
       /\ \A e \in Execs :
             (/\ e.pc = "probing" /\ ~e.orphaned /\ Exists(e.monitor_id)
              /\ RunStep(e) /\ ~RunRaises(e)) =>
                 \E x \in BagToSet(execs') :
                     /\ x.pc = "notify" /\ x.monitor_id = e.monitor_id
                     /\ CopiesIn(x, execs') > CopiesIn(x, execs)
                     /\ x.previous_state = Row(e.monitor_id).last_is_up
                     /\ Notifications(x.previous_state, x.out.is_up,
                                      x.out.message) =
                          IF Row(e.monitor_id).last_is_up = <<TRUE>>
                             /\ ~x.out.is_up
                          THEN << <<"notify_downtime", x.out.message>> >>
                          ELSE IF Row(e.monitor_id).last_is_up = <<FALSE>>
                                  /\ x.out.is_up
                          THEN << <<"notify_recovery", "">> >>
                          ELSE <<>>]_vars

C33_Witness ==
    \E e \in Execs, r \in Reqs :
        /\ r.op = "toggle" /\ r.pc = "sched_add" /\ ~r.is_paused
        /\ r.mid = e.monitor_id /\ ~e.orphaned
        /\ e.pc = "returned" /\ e.previous_state = <<TRUE>> /\ ~e.out.is_up
        /\ e.calls = << <<"notify_downtime", e.out.message>> >>
        /\ IsUpSeq(e.monitor_id) = <<TRUE, FALSE>>
        /\ JobsOf(e.monitor_id) = {}


(* C34: the steps of a run for monitor id m, from its start to the        *)
(* release of its slot, change only m: the job store, the is_paused and   *)
(* interval_seconds of every monitor, and the row and the MonitorChecks   *)
(* of every other monitor stay as they are, and no row appears or goes.   *)
C34_TickChangesOnlyItsMonitor ==
    [][/\ \A e \in Execs :
            RunStep(e) =>
              /\ jobs' = jobs
              /\ {y.id : y \in monitors'} = {x.id : x \in monitors}
              /\ \A x \in monitors, y \in monitors' :
                    y.id = x.id =>
                      /\ y.is_paused = x.is_paused
                      /\ y.interval_seconds = x.interval_seconds
                      /\ x.id # e.monitor_id =>
                            /\ y = x
                            /\ SelectSeq(checks', LAMBDA c : c.monitor_id = x.id)
                                   = ChecksOf(x.id)
       /\ \A x \in BagToSet(execs') :
            (x.pc = "submitted" /\ CopiesIn(x, execs') > CopiesIn(x, execs)) =>
                monitors' = monitors /\ checks' = checks /\ jobs' = jobs]_vars

C34_Witness ==
    \E e \in Execs, x \in monitors :
        /\ e.pc = "returned" /\ Recorded(e) /\ x.id # e.monitor_id
        /\ Exists(e.monitor_id)
        /\ LastCheck(e.monitor_id) = CheckRecord(e.monitor_id, e.out)
        /\ x.is_paused /\ x.interval_seconds = MinInterval
        /\ x.last_is_up = None /\ ChecksOf(x.id) = <<>>
        /\ Cardinality(jobs) = 1


(* The step of request r, which goes on as a request at the given place *)
GoesTo(r, pc) ==
    \E x \in BagToSet(reqs') :
        /\ x.pc = pc /\ x.op = r.op /\ x.mid = r.mid
        /\ CopiesIn(x, reqs') > CopiesIn(x, reqs)

(* C35: an update through the API of a monitor that is stored non-paused  *)
(* goes through schedule_monitor whether or not it changed the interval   *)
(* or the pause flag: its remove_job leaves the monitor without a job,    *)
(* so that the pending run time of the replaced job is lost, and when it  *)
(* returns the only job of the monitor is a new one whose interval has    *)
(* not begun to pass; a run starts only from a job that has waited its    *)
(* interval since it was installed.                                       *)
C35_UpdateRestartsTimer ==
    [][/\ \A r \in Reqs :
            (r.op = "update" /\ CopiesIn(r, reqs') < CopiesIn(r, reqs)) =>
              /\ (/\ r.pc = "commit"
                  /\ r.set_paused = None /\ r.set_interval = None) =>
                     GoesTo(r, "refresh") /\ monitors' = monitors
              /\ (/\ r.pc = "refresh" /\ Exists(r.mid)
                  /\ ~Row(r.mid).is_paused) => GoesTo(r, "sched_remove")
              /\ (r.pc = "sched_remove" /\ GoesTo(r, "sched_add")) =>
                     JobsOf(r.mid)' = {}
              /\ (/\ r.pc = "sched_add" /\ ~r.is_paused
                  /\ reqs' = reqs (-) SetToBag({r})) =>
                     /\ JobsOf(r.mid)' # {}
                     /\ \A j \in JobsOf(r.mid)' :
                           /\ ~j.waited
                           /\ j.seconds = IF r.interval_seconds > 30
                                          THEN r.interval_seconds ELSE 30
       /\ \A x \in BagToSet(execs') :
            (x.pc = "submitted" /\ CopiesIn(x, execs') > CopiesIn(x, execs)) =>
                \E j \in jobs : j.id = x.job_id /\ j.waited /\ j \in jobs']_vars

C35_Witness ==
    \E e \in Execs, x \in monitors :
        /\ Quiet /\ x.id = e.monitor_id /\ ~x.is_paused
        /\ e.pc = "probing" /\ ~e.orphaned
        /\ JobsOf(x.id) # {}
        /\ \A j \in JobsOf(x.id) :
              /\ ~j.waited /\ j.seconds = e.seconds
              /\ j.seconds = x.interval_seconds

====
